---------------------------- MODULE Spec2Model ----------------------------
(***************************************************************************)
(* Semantic steganographic encoder.                                        *)
(*                                                                         *)
(* Part I models src/backup/steganography.py: class SteganographyLLM       *)
(* (preprocess, train, get_candidates, encode, decode) and its driver.     *)
(* Part II models src/scripts/data_builder.py: the chunked bigram and      *)
(* trigram table builders.                                                 *)
(* Part III models the three tokenizers: SteganographyLLM.preprocess,      *)
(* preprocess_streamed and preprocess of src/backup/data_builder.py.       *)
(*                                                                         *)
(* A string is a sequence of one-character strings, so that w[0] of the    *)
(* source is w[1] here.  Word ids are 0-based as in the source.  A Python  *)
(* dict is a sequence of <<key, value>> pairs in insertion order wherever  *)
(* the source iterates over it, and a function where it is only indexed.   *)
(* A score is the real number ln(n/d) + pen, kept exactly as the record    *)
(* [n, d, pen] with n/d in lowest terms and pen a multiple of the fallback *)
(* penalty; the source's floats are read as the reals they approximate.    *)
(***************************************************************************)
EXTENDS Naturals, Integers, Sequences, FiniteSets, TLC

VARIABLES
    \* fields of SteganographyLLM
    vocab, word_to_id, id_to_word, transitions, words_by_char,
    \* the argument of train
    text_corpus,
    \* one call of encode: arguments, locals, result
    hidden_text, beam_width, target_chars, beam, char_idx, dead_end,
    cover_text, decoded_text,
    \* where the driver of SteganographyLLM is
    pc,
    \* build_model_incremental and build_trigram_model_incremental: the
    \* tokens of the file, the locals of the two functions, their results
    bpc, file_tokens, word_counts, raw_bigrams, prev_token,
    sorted_vocab, build_word_to_id, build_id_to_word, final_transitions,
    tpos, raw_trigrams, tprev_prev_token, tprev_token,
    final_trigram_transitions,
    \* the configuration of the builders: TOP_K_PER_LETTER and
    \* TOP_K_PER_LETTER_TRIGRAM
    top_k, top_k_trigram,
    \* the tokenizers: a text, which of them ran on it, the tokens it gave
    raw_text, tokenizer, clean_tokens

modelVars == <<vocab, word_to_id, id_to_word, transitions, words_by_char>>
encodeVars == <<hidden_text, beam_width, target_chars, beam, char_idx,
                dead_end, cover_text, decoded_text>>
stegoVars == <<modelVars, text_corpus, encodeVars, pc>>
builderVars == <<bpc, file_tokens, word_counts, raw_bigrams, prev_token,
                 sorted_vocab, build_word_to_id, build_id_to_word,
                 final_transitions,
                 tpos, raw_trigrams, tprev_prev_token, tprev_token,
                 final_trigram_transitions, top_k, top_k_trigram>>
tokenVars == <<raw_text, tokenizer, clean_tokens>>
vars == <<stegoVars, builderVars, tokenVars>>

-----------------------------------------------------------------------------
(* Characters and strings *)

LowerLetters == <<"a","b","c","d","e","f","g","h","i","j","k","l","m",
                  "n","o","p","q","r","s","t","u","v","w","x","y","z">>
UpperLetters == <<"A","B","C","D","E","F","G","H","I","J","K","L","M",
                  "N","O","P","Q","R","S","T","U","V","W","X","Y","Z">>
Whitespace == {" ", "\n", "\t"}

IsLower(c) == \E i \in 1..26 : LowerLetters[i] = c
IsUpper(c) == \E i \in 1..26 : UpperLetters[i] = c
\* str.isalpha on one character
IsAlpha(c) == IsLower(c) \/ IsUpper(c)
\* str.lower on one character
Lower(c) == IF IsUpper(c)
            THEN LowerLetters[CHOOSE i \in 1..26 : UpperLetters[i] = c]
            ELSE c
\* str.upper on one character
Upper(c) == IF IsLower(c)
            THEN UpperLetters[CHOOSE i \in 1..26 : LowerLetters[i] = c]
            ELSE c
\* ord() of a lowercase letter
Ord(c) == CHOOSE i \in 1..26 : LowerLetters[i] = c

LowerStr(s) == [i \in 1..Len(s) |-> Lower(s[i])]

\* Python's < on two strings of lowercase letters
RECURSIVE StrLess(_, _)
StrLess(s, t) ==
    IF s = <<>> THEN t # <<>>
    ELSE IF t = <<>> THEN FALSE
    ELSE IF s[1] # t[1] THEN Ord(s[1]) < Ord(t[1])
    ELSE StrLess(Tail(s), Tail(t))

\* str.split(): the maximal runs of non-whitespace characters, in order
Split(s) ==
    LET starts == {i \in 1..Len(s) :
                      /\ s[i] \notin Whitespace
                      /\ (i = 1 \/ s[i - 1] \in Whitespace)}
        start(k) == CHOOSE i \in starts :
                        Cardinality({j \in starts : j < i}) = k - 1
        stop(i) == CHOOSE j \in i..Len(s) :
                       /\ \A m \in i..j : s[m] \notin Whitespace
                       /\ (j = Len(s) \/ s[j + 1] \in Whitespace)
    IN  [k \in 1..Cardinality(starts) |-> SubSeq(s, start(k), stop(start(k)))]

\* " ".join(words)
RECURSIVE Join(_)
Join(ws) ==
    IF ws = <<>> THEN <<>>
    ELSE IF Len(ws) = 1 THEN ws[1]
    ELSE ws[1] \o <<" ">> \o Join(Tail(ws))

\* str.capitalize(): first character upper-cased, the rest lower-cased
Capitalize(s) ==
    [i \in 1..Len(s) |-> IF i = 1 THEN Upper(s[i]) ELSE Lower(s[i])]

\* re.sub(r'[^a-z\s]', '', text)
StripNonLowerAlpha(s) == SelectSeq(s, LAMBDA c : IsLower(c) \/ c \in Whitespace)
\* re.sub(r'[^a-zA-Z\s]', '', sentence)
StripNonAlpha(s) == SelectSeq(s, LAMBDA c : IsAlpha(c) \/ c \in Whitespace)

\* preprocess without text.lower()
preprocess_NoLower(text) == Split(StripNonLowerAlpha(text))

\* SteganographyLLM.preprocess
preprocess(text) == Split(StripNonLowerAlpha(LowerStr(text)))

Range(s) == {s[i] : i \in 1..Len(s)}


-----------------------------------------------------------------------------
(* Scores *)

\* penalty_score of get_candidates, and floor(e^20): a fallback step costs
\* more than a transition of probability n/d as long as d/n < e^20.
penalty_score == -20
EXP_PENALTY == 485165195

RECURSIVE GCD(_, _)
GCD(a, b) == IF b = 0 THEN a ELSE GCD(b, a % b)

\* math.log(count / total)
LogProb(count, total) ==
    LET g == GCD(count, total)
    IN  [n |-> count \div g, d |-> total \div g, pen |-> 0]

\* the score 0.0 of an initial path
ZeroScore == [n |-> 1, d |-> 1, pen |-> 0]
\* the score penalty_score of a fallback candidate
PenaltyScore == [n |-> 1, d |-> 1, pen |-> penalty_score]

\* current_score + trans_score
AddScore(s, t) ==
    LET g == GCD(s.n * t.n, s.d * t.d)
    IN  [n |-> (s.n * t.n) \div g, d |-> (s.d * t.d) \div g,
         pen |-> s.pen + t.pen]

\* s < t as floats: ln(s.n/s.d) + s.pen < ln(t.n/t.d) + t.pen
ScoreLess(s, t) ==
    LET P == s.n * t.d
        Q == t.n * s.d
    IN  IF s.pen = t.pen THEN P < Q
        ELSE IF s.pen < t.pen THEN (P \div Q) < EXP_PENALTY
        ELSE ~((Q \div P) < EXP_PENALTY)

-----------------------------------------------------------------------------
(* Python containers *)

\* sorted(list(set(tokens))) on strings
RECURSIVE SortedStrings(_)
SortedStrings(S) ==
    IF S = {} THEN <<>>
    ELSE LET m == CHOOSE x \in S : \A y \in S \ {x} : StrLess(x, y)
         IN  <<m>> \o SortedStrings(S \ {m})

\* counter[key] += 1 on a dict kept as <<key, count>> pairs in insertion order
IncCounter(counter, key) ==
    IF \E i \in 1..Len(counter) : counter[i][1] = key
    THEN [i \in 1..Len(counter) |->
             IF counter[i][1] = key
             THEN <<key, counter[i][2] + 1>> ELSE counter[i]]
    ELSE Append(counter, <<key, 1>>)

\* counts[curr][next] += 1 on a defaultdict of such dicts
IncNested(counts, curr, next) ==
    IF curr \in DOMAIN counts
    THEN [counts EXCEPT ![curr] = IncCounter(@, next)]
    ELSE counts @@ (curr :> <<<<next, 1>>>>)

\* sum(next_ids.values())
RECURSIVE SumCounts(_)
SumCounts(counter) ==
    IF counter = <<>> THEN 0 ELSE counter[1][2] + SumCounts(Tail(counter))

EmptyMap == [x \in {} |-> 0]

-----------------------------------------------------------------------------
(* SteganographyLLM.train *)

\* unique_words = sorted(list(set(tokens)))
UniqueWords(tokens) == SortedStrings(Range(tokens))

\* {w: i for i, w in enumerate(unique_words)}
WordToId(unique_words) ==
    [w \in Range(unique_words) |->
        (CHOOSE i \in 1..Len(unique_words) : unique_words[i] = w) - 1]

\* {i: w for i, w in enumerate(unique_words)}
IdToWord(unique_words) ==
    [i \in 0..(Len(unique_words) - 1) |-> unique_words[i + 1]]

\* words_by_char keyed by w[-1], the last letter
WordsByLastChar(unique_words) ==
    LET ids == [i \in 1..Len(unique_words) |-> i - 1]
    IN  [c \in {w[Len(w)] : w \in Range(unique_words)} |->
            SelectSeq(ids, LAMBDA i :
                unique_words[i + 1][Len(unique_words[i + 1])] = c)]

\* for w in unique_words: words_by_char[w[0]].append(word_to_id[w])
WordsByChar(unique_words) ==
    LET ids == [i \in 1..Len(unique_words) |-> i - 1]
    IN  [c \in {w[1] : w \in Range(unique_words)} |->
            SelectSeq(ids, LAMBDA i : unique_words[i + 1][1] = c)]

\* the loop over range(len(tokens) - 1) filling bigram_counts
RECURSIVE BigramCounts(_, _, _, _)
BigramCounts(tokens, w2i, i, counts) ==
    IF i + 1 > Len(tokens) THEN counts
    ELSE BigramCounts(tokens, w2i, i + 1,
             IncNested(counts, w2i[tokens[i]], w2i[tokens[i + 1]]))

\* transitions[curr_id][start_char][next_id] = math.log(count / total)
Transitions(bigram_counts, i2w) ==
    [curr \in DOMAIN bigram_counts |->
        LET next_ids == bigram_counts[curr]
            total_occurrences == SumCounts(next_ids)
            scored == [k \in 1..Len(next_ids) |->
                          <<next_ids[k][1],
                            LogProb(next_ids[k][2], total_occurrences)>>]
        IN  [c \in {i2w[next_ids[k][1]][1] : k \in 1..Len(next_ids)} |->
                SelectSeq(scored, LAMBDA e : i2w[e[1]][1] = c)]]

-----------------------------------------------------------------------------
(* SteganographyLLM.get_candidates *)

\* the first min(k, len) elements: seq[:k]
Take(seq, k) == SubSeq(seq, 1, IF k < Len(seq) THEN k ELSE Len(seq))

\* Strategy A: the scored successors of current_word_id that start with
\* target_char
GraphCandidates(trans, current_word_id, target_char) ==
    IF current_word_id \in DOMAIN trans
    THEN IF target_char \in DOMAIN trans[current_word_id]
         THEN trans[current_word_id][target_char]
         ELSE <<>>
    ELSE <<>>

FALLBACK_LIMIT == 10

\* Strategy B with the fallback words at score 0.0
FallbackCandidates_NoPenalty(wbc, target_char) ==
    LET fallback_words == IF target_char \in DOMAIN wbc
                          THEN wbc[target_char] ELSE <<>>
        selected_fallbacks == Take(fallback_words, FALLBACK_LIMIT)
    IN  [k \in 1..Len(selected_fallbacks) |->
            <<selected_fallbacks[k], ZeroScore>>]

\* Strategy B: fallback_words[:10], each at penalty_score
FallbackCandidates(wbc, target_char) ==
    LET fallback_words == IF target_char \in DOMAIN wbc
                          THEN wbc[target_char] ELSE <<>>
        selected_fallbacks == Take(fallback_words, FALLBACK_LIMIT)
    IN  [k \in 1..Len(selected_fallbacks) |->
            <<selected_fallbacks[k], PenaltyScore>>]

\* get_candidates with the result of Strategy A dropped
get_candidates_FallbackOnly(trans, wbc, current_word_id, target_char) ==
    FallbackCandidates(wbc, target_char)

\* a defaultdict after d[key]: a key it has not is inserted with the
\* default value
GetItemDefault(d, key, default) ==
    IF key \in DOMAIN d THEN d ELSE d @@ (key :> default)

\* a dict after d.get(key, default): as it was
AfterGet(d, key) == d

\* transitions after the subscripts of Strategy A without the `in` tests
TransitionsAfter_Unguarded(trans, current_word_id, target_char) ==
    LET indexed == GetItemDefault(trans, current_word_id, EmptyMap)
    IN  [indexed EXCEPT ![current_word_id] =
            GetItemDefault(@, target_char, <<>>)]

\* self.transitions after get_candidates(current_word_id, target_char):
\* Strategy A subscripts the defaultdicts only behind the `in` tests
TransitionsAfter(trans, current_word_id, target_char) ==
    IF current_word_id \in DOMAIN trans
    THEN LET indexed == GetItemDefault(trans, current_word_id, EmptyMap)
         IN  IF target_char \in DOMAIN indexed[current_word_id]
             THEN [indexed EXCEPT ![current_word_id] =
                      GetItemDefault(@, target_char, <<>>)]
             ELSE indexed
    ELSE trans

\* self.transitions after get_candidates for every path of the beam
RECURSIVE TransitionsAfterBeam(_, _, _)
TransitionsAfterBeam(trans, paths, target_char) ==
    IF paths = <<>> THEN trans
    ELSE TransitionsAfterBeam(
             TransitionsAfter(trans,
                              paths[1].sequence[Len(paths[1].sequence)],
                              target_char),
             Tail(paths), target_char)

get_candidates(trans, wbc, current_word_id, target_char) ==
    LET candidates == GraphCandidates(trans, current_word_id, target_char)
    IN  IF candidates = <<>>
        THEN FallbackCandidates(wbc, target_char)
        ELSE candidates

-----------------------------------------------------------------------------
(* SteganographyLLM.encode *)

\* [c.lower() for c in hidden_text if c.isalpha()]
TargetChars(text) == LowerStr(SelectSeq(text, IsAlpha))

\* sorted(paths, key=score, reverse=True): stable, so paths of equal score
\* keep their order
RECURSIVE InsertByScore(_, _)
InsertByScore(sorted, p) ==
    IF sorted = <<>> THEN <<p>>
    ELSE IF ScoreLess(sorted[1].score, p.score)
         THEN <<p>> \o sorted
         ELSE <<sorted[1]>> \o InsertByScore(Tail(sorted), p)

RECURSIVE SortByScore(_, _)
SortByScore(paths, acc) ==
    IF paths = <<>> THEN acc
    ELSE SortByScore(Tail(paths), InsertByScore(acc, paths[1]))

\* the sort without reverse=True: lowest score first
RECURSIVE InsertByScoreAscending(_, _)
InsertByScoreAscending(sorted, p) ==
    IF sorted = <<>> THEN <<p>>
    ELSE IF ScoreLess(p.score, sorted[1].score)
         THEN <<p>> \o sorted
         ELSE <<sorted[1]>> \o InsertByScoreAscending(Tail(sorted), p)

RECURSIVE SortByScoreAscending(_, _)
SortByScoreAscending(paths, acc) ==
    IF paths = <<>> THEN acc
    ELSE SortByScoreAscending(Tail(paths), InsertByScoreAscending(acc, paths[1]))

TopKAscending(paths, width) == Take(SortByScoreAscending(paths, <<>>), width)

\* sorted(paths, key=lambda x: x['score'], reverse=True)[:beam_width]
TopK(paths, width) == Take(SortByScore(paths, <<>>), width)

\* the initial beam: one path of score 0.0 per word starting with first_char
InitialBeam(wbc, first_char, width) ==
    LET start_candidates == IF first_char \in DOMAIN wbc
                            THEN wbc[first_char] ELSE <<>>
    IN  TopK([k \in 1..Len(start_candidates) |->
                 [sequence |-> <<start_candidates[k]>>, score |-> ZeroScore]],
             width)

\* the extensions of one path by its candidates for target_char
ExtendPath(trans, wbc, path, target_char) ==
    LET last_word_id == path.sequence[Len(path.sequence)]
        candidates == get_candidates(trans, wbc, last_word_id, target_char)
    IN  [k \in 1..Len(candidates) |->
            [sequence |-> Append(path.sequence, candidates[k][1]),
             score |-> AddScore(path.score, candidates[k][2])]]

\* new_beam: the extensions of every path of the beam, in beam order
RECURSIVE NewBeam(_, _, _, _)
NewBeam(trans, wbc, paths, target_char) ==
    IF paths = <<>> THEN <<>>
    ELSE ExtendPath(trans, wbc, paths[1], target_char)
         \o NewBeam(trans, wbc, Tail(paths), target_char)

\* " ".join(id_to_word[i] for i in best_path).capitalize() + "."
Sentence(i2w, sequence) ==
    Capitalize(Join([k \in 1..Len(sequence) |-> i2w[sequence[k]]])) \o <<".">>

\* the loop of encode from target_chars[i] (1-based) on: the beam it ends
\* with, after the last character or at the first dead end
RECURSIVE RunBeam(_, _, _, _, _, _)
RunBeam(trans, wbc, target, i, paths, width) ==
    IF i > Len(target) THEN paths
    ELSE LET new_beam == NewBeam(trans, wbc, paths, target[i])
         IN  IF new_beam = <<>> THEN paths
             ELSE RunBeam(trans, wbc, target, i + 1,
                          TopK(new_beam, width), width)

\* the beam encode ends with for a non-empty target; its first path is
\* best_path
FinalBeam(trans, wbc, target, width) ==
    RunBeam(trans, wbc, target, 2, InitialBeam(wbc, target[1], width), width)

-----------------------------------------------------------------------------
(* SteganographyLLM.decode *)

\* decode without .lower() on the first letters
decode_NoLower(sentence) ==
    LET words == Split(StripNonAlpha(sentence))
    IN  [k \in 1..Len(words) |-> words[k][1]]

decode(sentence) ==
    LET words == Split(StripNonAlpha(sentence))
    IN  [k \in 1..Len(words) |-> Lower(words[k][1])]

-----------------------------------------------------------------------------
(* data_builder.py: configuration *)

TOP_K_PER_LETTER == 30
MIN_BIGRAM_FREQ == 2
TOP_K_PER_LETTER_TRIGRAM == 20
MIN_TRIGRAM_FREQ == 2

\* prev_token = None
None == <<>>

-----------------------------------------------------------------------------
(* data_builder.py: the loop bodies of the two builders *)

\* valid_chunk = [t for t in chunk if t in english_words]
ValidChunk(chunk, english_words) ==
    SelectSeq(chunk, LAMBDA t : t \in english_words)

\* word_counts.update(valid_chunk)
RECURSIVE UpdateCounter(_, _)
UpdateCounter(counter, valid_chunk) ==
    IF valid_chunk = <<>> THEN counter
    ELSE UpdateCounter(IncCounter(counter, valid_chunk[1]), Tail(valid_chunk))

\* for i in range(len(valid_chunk) - 1): raw_bigrams[curr_w][next_w] += 1
RECURSIVE ChunkBigrams(_, _, _)
ChunkBigrams(raw, valid_chunk, i) ==
    IF i + 1 > Len(valid_chunk) THEN raw
    ELSE ChunkBigrams(IncNested(raw, valid_chunk[i], valid_chunk[i + 1]),
                      valid_chunk, i + 1)

\* the aggregation that takes every chunk for a file of its own
AggregateBigrams_NoCrossChunk(raw, prev, valid_chunk) ==
    ChunkBigrams(raw, valid_chunk, 1)

\* one chunk of build_model_incremental on raw_bigrams: the bigrams within
\* the chunk, then the one across the chunk boundary
AggregateBigrams(raw, prev, valid_chunk) ==
    LET within == ChunkBigrams(raw, valid_chunk, 1)
    IN  IF prev # None /\ valid_chunk # <<>>
        THEN IncNested(within, prev, valid_chunk[1])
        ELSE within

\* if valid_chunk: prev_token = valid_chunk[-1]
LastToken(prev, valid_chunk) ==
    IF valid_chunk # <<>> THEN valid_chunk[Len(valid_chunk)] ELSE prev

\* raw_trigrams[word1][word2][word3] += 1 on a defaultdict of defaultdicts
\* of Counters
IncNested3(raw, word1, word2, word3) ==
    IF word1 \in DOMAIN raw
    THEN [raw EXCEPT ![word1] = IncNested(@, word2, word3)]
    ELSE raw @@ (word1 :> (word2 :> <<<<word3, 1>>>>))

\* for i in range(len(valid_chunk) - 2): raw_trigrams[w1][w2][w3] += 1
RECURSIVE ChunkTrigrams(_, _, _)
ChunkTrigrams(raw, valid_chunk, i) ==
    IF i + 2 > Len(valid_chunk) THEN raw
    ELSE ChunkTrigrams(IncNested3(raw, valid_chunk[i], valid_chunk[i + 1],
                                  valid_chunk[i + 2]),
                       valid_chunk, i + 1)

\* one chunk of build_trigram_model_incremental on raw_trigrams: the
\* trigrams within the chunk, then the two across the chunk boundary
AggregateTrigrams(raw, prev_prev, prev, valid_chunk) ==
    LET within == ChunkTrigrams(raw, valid_chunk, 1)
        case1 == IF prev_prev # None /\ prev # None /\ valid_chunk # <<>>
                 THEN IncNested3(within, prev_prev, prev, valid_chunk[1])
                 ELSE within
    IN  IF prev # None /\ Len(valid_chunk) >= 2
        THEN IncNested3(case1, prev, valid_chunk[1], valid_chunk[2])
        ELSE case1

\* the last two tokens remembered for the next chunk: <<prev_prev, prev>>
LastTwoTokens(prev_prev, prev, valid_chunk) ==
    IF Len(valid_chunk) >= 2
    THEN <<valid_chunk[Len(valid_chunk) - 1], valid_chunk[Len(valid_chunk)]>>
    ELSE IF Len(valid_chunk) = 1
         THEN <<prev, valid_chunk[1]>>
         ELSE <<prev_prev, prev>>

-----------------------------------------------------------------------------
(* data_builder.py: vocabulary and pruning *)

\* A table is a function of its contexts and a group a function of its
\* letters: the order of the keys of these dicts is not modelled.  The
\* Counters, whose order decides the order of the candidates of equal
\* count, are sequences in insertion order.

\* sorted(pairs, key=itemgetter(1), reverse=True): stable, by count
RECURSIVE InsertByCount(_, _)
InsertByCount(sorted, e) ==
    IF sorted = <<>> THEN <<e>>
    ELSE IF sorted[1][2] < e[2]
         THEN <<e>> \o sorted
         ELSE <<sorted[1]>> \o InsertByCount(Tail(sorted), e)

RECURSIVE SortByCount(_, _)
SortByCount(pairs, acc) ==
    IF pairs = <<>> THEN acc
    ELSE SortByCount(Tail(pairs), InsertByCount(acc, pairs[1]))

\* the items of a Counter as they were inserted
MostCommon_Unsorted(counter) == counter

\* Counter.most_common()
MostCommon(counter) == SortByCount(counter, <<>>)

\* sorted_vocab = [w for w, _ in word_counts.most_common()]
SortedVocab(counter) ==
    LET common == MostCommon(counter)
    IN  [i \in 1..Len(common) |-> common[i][1]]

\* a Counter converted from words to ids, order kept
IdCounter(counter, w2i) ==
    [k \in 1..Len(counter) |-> <<w2i[counter[k][1]], counter[k][2]>>]

\* id_bigrams[curr_id][next_id] = count
IdBigrams(raw, w2i) ==
    [curr_id \in {w2i[w] : w \in DOMAIN raw} |->
        IdCounter(raw[CHOOSE w \in DOMAIN raw : w2i[w] = curr_id], w2i)]

\* id_trigrams[word1_id][word2_id][word3_id] = count, words without an id
\* skipped.  A context all of whose entries are skipped is kept here with
\* an empty map, where the source has no entry; the pruning drops both.
IdTrigrams(raw, w2i) ==
    LET known1 == {w \in DOMAIN raw : w \in DOMAIN w2i}
    IN  [word1_id \in {w2i[w] : w \in known1} |->
            LET word2_dict == raw[CHOOSE w \in known1 : w2i[w] = word1_id]
                known2 == {w \in DOMAIN word2_dict : w \in DOMAIN w2i}
            IN  [word2_id \in {w2i[w] : w \in known2} |->
                    IdCounter(
                        SelectSeq(word2_dict[CHOOSE w \in known2 :
                                                 w2i[w] = word2_id],
                                  LAMBDA e : e[1] \in DOMAIN w2i),
                        w2i)]]

\* the groups without the test on min_freq
OptimizedGroups_NoMinFreq(next_words_map, i2w, min_freq, k) ==
    LET char_groups ==
            [c \in {i2w[e[1]][1] : e \in Range(next_words_map)} |->
                SelectSeq(next_words_map, LAMBDA e : i2w[e[1]][1] = c)]
    IN  [c \in DOMAIN char_groups |->
            LET candidates == Take(SortByCount(char_groups[c], <<>>), k)
            IN  [j \in 1..Len(candidates) |-> candidates[j][1]]]

\* optimized_groups of one context: the next words of count >= min_freq
\* grouped by first letter, each group sorted by count, its first k ids
OptimizedGroups(next_words_map, i2w, min_freq, k) ==
    LET kept == SelectSeq(next_words_map, LAMBDA e : ~(e[2] < min_freq))
        char_groups ==
            [c \in {i2w[e[1]][1] : e \in Range(kept)} |->
                SelectSeq(kept, LAMBDA e : i2w[e[1]][1] = c)]
    IN  [c \in DOMAIN char_groups |->
            LET candidates == Take(SortByCount(char_groups[c], <<>>), k)
            IN  [j \in 1..Len(candidates) |-> candidates[j][1]]]

\* final_transitions: the contexts whose optimized_groups is not empty
FinalTransitions(id_bigrams, i2w, min_freq, k) ==
    LET groups(curr_id) ==
            OptimizedGroups(id_bigrams[curr_id], i2w, min_freq, k)
    IN  [curr_id \in {c \in DOMAIN id_bigrams : DOMAIN groups(c) # {}} |->
            groups(curr_id)]

\* final_trigram_transitions: per word1_id the word2_ids whose
\* optimized_groups is not empty, and only the word1_ids that have one
FinalTrigramTransitions(id_trigrams, i2w, min_freq, k) ==
    LET word1_transitions(word1_id) ==
            FinalTransitions(id_trigrams[word1_id], i2w, min_freq, k)
    IN  [word1_id \in {c \in DOMAIN id_trigrams :
                          DOMAIN word1_transitions(c) # {}} |->
            word1_transitions(word1_id)]

-----------------------------------------------------------------------------
(* Inputs *)

\* training_data of the test driver
training_data ==
    <<"\n">>
    \o <<"I","n"," ","t","h","e"," ","a","f","t","e","r","n","o","o","n"," ","m","y"," ","g","r","a","n","d","m","a"," ","o","v","e","r","e","a","t","s"," ","o","a","t","s"," ","d","a","i","l","y",".","\n">>
    \o <<"I"," ","a","m"," ","a"," ","d","e","v","e","l","o","p","e","r"," ","a","n","d"," ","I"," ","a","m"," ","g","o","o","d"," ","a","t"," ","p","y","t","h","o","n",".","\n">>
    \o <<"A","l","w","a","y","s"," ","m","a","k","e"," ","g","r","e","a","t"," ","o","p","t","i","o","n","s"," ","o","n","l","y",".","\n">>
    \o <<"M","y"," ","g","r","a","n","d","m","a"," ","i","s"," ","g","o","o","d",".","\n">>
    \o <<"G","r","a","n","d","m","a"," ","o","v","e","r","e","a","t","s"," ","a","p","p","l","e","s",".","\n">>
    \o <<"O","a","t","s"," ","a","r","e"," ","d","e","l","i","c","i","o","u","s",".","\n">>
    \o <<"D","a","i","l","y"," ","r","o","u","t","i","n","e","s"," ","a","r","e"," ","g","o","o","d",".","\n">>
    \o <<"I","n"," ","a","d","d","i","t","i","o","n"," ","m","y"," ","g","r","o","u","p"," ","o","f","f","e","r","s"," ","o","p","t","i","o","n","s",".","\n">>

\* secret and beam_width of the test driver's call of encode
secret == <<"I"," ","a","m"," ","g","o","o","d">>
DRIVER_BEAM_WIDTH == 5

\* Bounds of the enumerated inputs
MaxCorpusWords == 2
MaxMsgLen == 4
MaxBeamWidth == 2

\* Raw words of the small corpora: case and punctuation as a text has them
CorpusWords == { <<"A">>, <<"a","m",".">>, <<"O","a","t","s">> }
\* Characters of the enumerated secrets: letters the corpora have words for
\* ("o", "a"), an upper-case letter the small corpora have no word for
\* ("G"), and a non-letter
MsgChars == {"o", "a", "G", " "}

SeqsUpTo(S, n) == UNION {[1..k -> S] : k \in 0..n}

Corpora == {Join(ws) : ws \in SeqsUpTo(CorpusWords, MaxCorpusWords)}
              \cup {training_data}
Messages == SeqsUpTo(MsgChars, MaxMsgLen)
\* a secret of three words whose third word has, in training_data, a
\* context of two words ("addition my") with fewer successors than its
\* context of one word ("my")
pair_secret == <<"a","m","g">>

EncodeCalls == (Messages \X (1..MaxBeamWidth))
                  \cup {<<secret, DRIVER_BEAM_WIDTH>>,
                        <<pair_secret, DRIVER_BEAM_WIDTH>>}

-----------------------------------------------------------------------------
(* The driver of SteganographyLLM *)

\* SteganographyLLM.__init__
StegoInit ==
    /\ vocab = {}
    /\ word_to_id = EmptyMap
    /\ id_to_word = EmptyMap
    /\ transitions = EmptyMap
    /\ words_by_char = EmptyMap
    /\ text_corpus = <<>>
    /\ hidden_text = <<>>
    /\ beam_width = 0
    /\ target_chars = <<>>
    /\ beam = <<>>
    /\ char_idx = 0
    /\ dead_end = -1
    /\ cover_text = <<>>
    /\ decoded_text = <<>>
    /\ pc = "new"

\* model.train(text)
Train(text) ==
    /\ pc = "new"
    /\ LET tokens == preprocess(text)
           unique_words == UniqueWords(tokens)
           w2i == WordToId(unique_words)
           i2w == IdToWord(unique_words)
       IN  /\ vocab' = Range(unique_words)
           /\ word_to_id' = w2i
           /\ id_to_word' = i2w
           /\ words_by_char' = WordsByChar(unique_words)
           /\ transitions' =
                  Transitions(BigramCounts(tokens, w2i, 1, EmptyMap), i2w)
    /\ text_corpus' = text
    /\ pc' = "trained"
    /\ UNCHANGED encodeVars

\* the driver trains a new model on some corpus
TrainCall == pc = "new" /\ \E text \in Corpora : Train(text)

\* encode, up to the loop: the target characters and the initial beam
EncodeInit(text, width) ==
    /\ pc = "trained"
    /\ hidden_text' = text
    /\ beam_width' = width
    /\ target_chars' = TargetChars(text)
    /\ char_idx' = 0
    /\ dead_end' = -1
    /\ decoded_text' = <<>>
    /\ cover_text' = <<>>
    /\ IF TargetChars(text) = <<>>
       THEN /\ beam' = <<>>
            /\ pc' = "returned"
            /\ UNCHANGED words_by_char
       ELSE /\ beam' = InitialBeam(words_by_char, TargetChars(text)[1], width)
            /\ pc' = "loop"
            /\ words_by_char' = AfterGet(words_by_char, TargetChars(text)[1])
    /\ UNCHANGED <<vocab, word_to_id, id_to_word, transitions, text_corpus>>

\* the driver calls encode on a trained model
EncodeCall ==
    pc = "trained" /\ \E call \in EncodeCalls : EncodeInit(call[1], call[2])

\* the top beam_width extensions of each path, one path after the other
RECURSIVE NewBeamPerPath(_, _, _, _, _)
NewBeamPerPath(trans, wbc, paths, target_char, width) ==
    IF paths = <<>> THEN <<>>
    ELSE TopK(ExtendPath(trans, wbc, paths[1], target_char), width)
         \o NewBeamPerPath(trans, wbc, Tail(paths), target_char, width)

\* the iteration that prunes the extensions of each path on their own
EncodeStep_PerPathTopK ==
    /\ pc = "loop"
    /\ char_idx + 2 <= Len(target_chars)
    /\ LET target_char == target_chars[char_idx + 2]
           new_beam == NewBeamPerPath(transitions, words_by_char, beam,
                                      target_char, beam_width)
       IN  IF new_beam = <<>>
           THEN /\ dead_end' = char_idx + 1
                /\ pc' = "break"
                /\ UNCHANGED <<beam, char_idx>>
           ELSE /\ beam' = new_beam
                /\ char_idx' = char_idx + 1
                /\ UNCHANGED <<dead_end, pc>>
    /\ UNCHANGED <<modelVars, text_corpus, hidden_text, beam_width,
                   target_chars, cover_text, decoded_text>>

\* one iteration of the loop over target_chars[1:]; char_idx is its
\* enumerate index, so the character is target_chars[char_idx + 1] in the
\* source's 0-based indexing
EncodeStep ==
    /\ pc = "loop"
    /\ char_idx + 2 <= Len(target_chars)
    /\ LET target_char == target_chars[char_idx + 2]
           new_beam == NewBeam(transitions, words_by_char, beam, target_char)
       IN  IF new_beam = <<>>
           THEN /\ dead_end' = char_idx + 1
                /\ pc' = "break"
                /\ UNCHANGED <<beam, char_idx>>
           ELSE /\ beam' = TopK(new_beam, beam_width)
                /\ char_idx' = char_idx + 1
                /\ UNCHANGED <<dead_end, pc>>
    /\ transitions' =
           TransitionsAfterBeam(transitions, beam, target_chars[char_idx + 2])
    /\ words_by_char' = AfterGet(words_by_char, target_chars[char_idx + 2])
    /\ UNCHANGED <<vocab, word_to_id, id_to_word, text_corpus, hidden_text,
                   beam_width, target_chars, cover_text, decoded_text>>

\* after the loop: best_path = beam[0] raises IndexError on an empty beam,
\* else the sentence of the best path is returned
EncodeReturn ==
    /\ \/ pc = "break"
       \/ pc = "loop" /\ char_idx + 2 > Len(target_chars)
    /\ IF beam = <<>>
       THEN /\ pc' = "raised"
            /\ UNCHANGED cover_text
       ELSE /\ cover_text' = Sentence(id_to_word, beam[1].sequence)
            /\ pc' = "returned"
    /\ UNCHANGED <<modelVars, text_corpus, hidden_text, beam_width,
                   target_chars, beam, char_idx, dead_end, decoded_text>>

\* decoded_text = model.decode(cover_text)
Decode ==
    /\ pc = "returned"
    /\ decoded_text' = decode(cover_text)
    /\ pc' = "decoded"
    /\ UNCHANGED <<modelVars, text_corpus, hidden_text, beam_width,
                   target_chars, beam, char_idx, dead_end, cover_text>>

\* the call is over (encode raised, or its sentence was decoded): its
\* arguments and locals are gone, the trained model stays for the next call
CallDone ==
    /\ pc \in {"decoded", "raised"}
    /\ hidden_text' = <<>>
    /\ beam_width' = 0
    /\ target_chars' = <<>>
    /\ beam' = <<>>
    /\ char_idx' = 0
    /\ dead_end' = -1
    /\ cover_text' = <<>>
    /\ decoded_text' = <<>>
    /\ pc' = "trained"
    /\ UNCHANGED <<modelVars, text_corpus>>

\* the table builders are not running
BuilderIdle ==
    /\ bpc = "idle"
    /\ file_tokens = <<>>
    /\ word_counts = <<>>
    /\ raw_bigrams = EmptyMap
    /\ prev_token = <<>>
    /\ sorted_vocab = <<>>
    /\ build_word_to_id = EmptyMap
    /\ build_id_to_word = EmptyMap
    /\ final_transitions = EmptyMap
    /\ tpos = 0
    /\ raw_trigrams = EmptyMap
    /\ tprev_prev_token = <<>>
    /\ tprev_token = <<>>
    /\ final_trigram_transitions = EmptyMap
    /\ top_k = TOP_K_PER_LETTER
    /\ top_k_trigram = TOP_K_PER_LETTER_TRIGRAM

\* no tokenizer is running on its own
TokenizerIdle ==
    /\ raw_text = <<>>
    /\ tokenizer = "none"
    /\ clean_tokens = <<>>

Init == StegoInit /\ BuilderIdle /\ TokenizerIdle

Next ==
    \/ TrainCall /\ UNCHANGED <<builderVars, tokenVars>>
    \/ EncodeCall /\ UNCHANGED <<builderVars, tokenVars>>
    \/ EncodeStep /\ UNCHANGED <<builderVars, tokenVars>>
    \/ EncodeReturn /\ UNCHANGED <<builderVars, tokenVars>>
    \/ Decode /\ UNCHANGED <<builderVars, tokenVars>>
    \/ CallDone /\ UNCHANGED <<builderVars, tokenVars>>

Spec == Init /\ [][Next]_vars

-----------------------------------------------------------------------------
(* Claims about SteganographyLLM *)

\* the letters of a message, lowercased, in order
RECURSIVE LettersLowercased(_)
LettersLowercased(text) ==
    IF text = <<>> THEN <<>>
    ELSE IF IsAlpha(text[1])
         THEN <<Lower(text[1])>> \o LettersLowercased(Tail(text))
         ELSE LettersLowercased(Tail(text))

\* C1: when encode met no dead end (it returned, and its loop did not
\* break), decoding the sentence it returned gives the letters of the
\* message, lowercased, in order.
C1_RoundTrip ==
    (pc = "decoded" /\ dead_end = -1)
        => decoded_text = LettersLowercased(hidden_text)

\* a round trip of a message that is not its own letter form, over at
\* least three words, one of them a fallback word
C1_Witness ==
    /\ pc = "decoded" /\ dead_end = -1
    /\ Len(decoded_text) >= 3
    /\ hidden_text # decoded_text
    /\ beam[1].score.pen < 0
    /\ decoded_text = LettersLowercased(hidden_text)

\* C2: encode never raises: every call returns a sentence.
C2_EncodeNeverRaises == pc # "raised"

\* C3: a call of encode that met a dead end at step i returned a sentence
\* that decodes to the first i characters of the target sequence.
C3_PrefixOnDeadEnd ==
    (pc \in {"decoded", "raised"} /\ dead_end # -1)
        => /\ pc = "decoded"
           /\ decoded_text = SubSeq(LettersLowercased(hidden_text), 1, dead_end)

\* the score of the best path encode ends with for the current target and
\* the given beam width
BestScore(width) ==
    FinalBeam(transitions, words_by_char, target_chars, width)[1].score

\* the beam widths a returned call is compared with
WiderWidths == beam_width..(MaxBeamWidth + 1)

\* C4 as claimed: for the model and target of a returned call, no beam
\* width above the call's gives a best path of lower score.
C4_MonotonicBeam ==
    (pc = "returned" /\ beam # <<>>)
        => \A w2 \in WiderWidths : ~ScoreLess(BestScore(w2), beam[1].score)

\* C4 as amended: the same for targets of at most two letters, where the
\* search is one step from the initial beam.
C4_MonotonicOneStep ==
    (pc = "returned" /\ beam # <<>> /\ Len(target_chars) <= 2)
        => \A w2 \in WiderWidths : ~ScoreLess(BestScore(w2), beam[1].score)

\* a two-letter target for which a wider beam gives a strictly better path
C4_Witness ==
    /\ pc = "returned" /\ beam # <<>> /\ Len(target_chars) = 2
    /\ \E w2 \in WiderWidths : ScoreLess(beam[1].score, BestScore(w2))

\* C9: the driver's call, encode("I am good", beam_width=5) on the model
\* trained on training_data, returns seven words, every transition between
\* them a bigram of the model, at a score above the fallback penalty, and
\* the sentence decodes to "iamgood".
C9_DriverScenario ==
    (/\ pc = "decoded"
     /\ text_corpus = training_data
     /\ hidden_text = secret
     /\ beam_width = DRIVER_BEAM_WIDTH)
        => LET best == beam[1]
           IN  /\ Len(Split(cover_text)) = 7
               /\ Len(best.sequence) = 7
               /\ \A k \in 1..6 :
                     \E e \in Range(GraphCandidates(transitions,
                                        best.sequence[k], target_chars[k + 1])) :
                         e[1] = best.sequence[k + 1]
               /\ best.score.pen = 0
               /\ ScoreLess(PenaltyScore, best.score)
               /\ decoded_text = <<"i","a","m","g","o","o","d">>

C9_Witness ==
    /\ pc = "decoded"
    /\ text_corpus = training_data
    /\ hidden_text = secret
    /\ beam_width = DRIVER_BEAM_WIDTH
    /\ dead_end = -1

\* C10: in every beam, the word at each position of each path begins with
\* the target character of that position.
C10_FirstLetter ==
    \A p \in 1..Len(beam) :
        \A j \in 1..Len(beam[p].sequence) :
            /\ j <= Len(target_chars)
            /\ id_to_word[beam[p].sequence[j]][1] = target_chars[j]

\* a beam of two paths over three letters, one with a fallback word and
\* one with bigram transitions only
C10_Witness ==
    /\ Len(beam) >= 2
    /\ Len(beam[1].sequence) >= 3
    /\ \E p \in 1..Len(beam) : beam[p].score.pen < 0
    /\ \E p \in 1..Len(beam) : beam[p].score.pen = 0

-----------------------------------------------------------------------------
(* Claims about the steps of encode *)

\* a step of the loop of encode that met no dead end: beam' holds the
\* paths kept for the character StepChar
StepTaken == pc = "loop" /\ pc' = "loop" /\ char_idx' = char_idx + 1

StepChar == target_chars[char_idx + 2]

\* Strategy A has candidates for the path: a model-backed candidate
ModelBacked(path, c) ==
    GraphCandidates(transitions, path.sequence[Len(path.sequence)], c) # <<>>

\* the last word of the path, which begins with c, came from Strategy A
EndsModelBacked(path, c) ==
    LET n == Len(path.sequence)
    IN  /\ n >= 2
        /\ \E e \in Range(GraphCandidates(transitions,
                                          path.sequence[n - 1], c)) :
               e[1] = path.sequence[n]

\* C11: at every step, if at least one live path has a model-backed
\* candidate for the character, the highest-scoring path kept after the
\* step ends with a model-backed transition; the best path ends with a
\* fallback word only when no live path has a model-backed candidate.
C11_FallbackLastResort ==
    [][StepTaken =>
          ((\E p \in 1..Len(beam) : ModelBacked(beam[p], StepChar))
              => EndsModelBacked(beam'[1], StepChar))]_vars

\* C11 as the cumulative scores have it: the best kept path ends with a
\* model-backed transition if some live path has a model-backed candidate
\* of log-probability above the penalty and scores no lower than any live
\* path that has none.
C11_FallbackBehindBetterPaths ==
    [][StepTaken =>
          ((\E p \in 1..Len(beam) :
               /\ \E e \in Range(GraphCandidates(
                                     transitions,
                                     beam[p].sequence[Len(beam[p].sequence)],
                                     StepChar)) :
                      ScoreLess(PenaltyScore, e[2])
               /\ \A q \in 1..Len(beam) :
                      ModelBacked(beam[q], StepChar)
                          \/ ~ScoreLess(beam[p].score, beam[q].score))
              => EndsModelBacked(beam'[1], StepChar))]_vars

\* after a step the beam holds a path that ends with a fallback word behind
\* a best path that ends with a model-backed transition
C11_Witness ==
    /\ pc = "loop" /\ char_idx >= 1
    /\ EndsModelBacked(beam[1], target_chars[char_idx + 1])
    /\ \E p \in 1..Len(beam) :
           ~EndsModelBacked(beam[p], target_chars[char_idx + 1])

\* The class has no trigram table.  The trigram table of the corpus it was
\* trained on, as the specification describes it: the ids of the words that
\* begin with c and stand, somewhere in the corpus, right after the words
\* of the ids word1_id and word2_id.
TrigramBucket(word1_id, word2_id, c) ==
    LET tokens == preprocess(text_corpus)
    IN  {word_to_id[tokens[i + 2]] : i \in
            {j \in 1..(Len(tokens) - 2) :
                /\ tokens[j] = id_to_word[word1_id]
                /\ tokens[j + 1] = id_to_word[word2_id]
                /\ tokens[j + 2][1] = c}}

\* the word ids of a list of candidates
CandidateIds(candidates) == {e[1] : e \in Range(candidates)}

\* encode is about to take a step for the character StepChar
StepAhead == pc = "loop" /\ char_idx + 2 <= Len(target_chars) /\ beam # <<>>

BeamBounded ==
    /\ Len(beam) <= beam_width
    /\ \A p \in 1..Len(beam) :
           /\ Len(beam[p].sequence) = char_idx + 1
           /\ Len(beam[p].sequence) <= Len(target_chars)

\* every extension of every live path by each of its candidates for c
Extensions(c) ==
    UNION {Range(ExtendPath(transitions, words_by_char, beam[p], c)) :
              p \in 1..Len(beam)}

\* C14: after the initialization and after every step of encode the beam
\* holds at most beam_width paths, all of the length of the target
\* characters consumed so far and none longer than the target; the paths
\* kept by a step are the beam_width best, by score, of all extensions of
\* all live paths together.
C14_BeamBound ==
    [][/\ BeamBounded'
       /\ StepTaken =>
              /\ Range(beam') \subseteq Extensions(StepChar)
              /\ Len(beam') = IF Cardinality(Extensions(StepChar)) < beam_width
                              THEN Cardinality(Extensions(StepChar))
                              ELSE beam_width
              /\ \A i \in 1..Len(beam') : \A j \in 1..Len(beam') :
                     i < j => beam'[i] # beam'[j]
              /\ \A x \in Extensions(StepChar) \ Range(beam') :
                     \A j \in 1..Len(beam') :
                         ~ScoreLess(beam'[j].score, x.score)]_vars

\* a full beam after two steps whose two best paths extend the same path
C14_Witness ==
    /\ pc = "loop" /\ char_idx >= 2
    /\ Len(beam) >= 2 /\ Len(beam) = beam_width
    /\ SubSeq(beam[1].sequence, 1, char_idx)
           = SubSeq(beam[2].sequence, 1, char_idx)

-----------------------------------------------------------------------------
(* The run of data_builder.py *)

\* The corpus file is a sequence of raw tokens.  A chunk yielded by
\* preprocess_streamed is any non-empty run of them: a chunk ends at the
\* first end of line at or after chunk_size tokens, and the tokens that
\* english_words rejects make the valid part of a chunk as short as an
\* input likes, the empty list included.
MaxFileTokens == 6

\* the greatest TOP_K_PER_LETTER and TOP_K_PER_LETTER_TRIGRAM below those of
\* the source that the builders are run with
MaxTopK == 1

english_words == { <<"a">>, <<"a","b">>, <<"b">> }

Tokens == english_words \cup { <<"z","z">> }

\* the configurations: the pair of the source, and pairs small enough for
\* the truncation to cut
TopKConfigs ==
    {<<k, k>> : k \in 1..MaxTopK}
        \cup {<<TOP_K_PER_LETTER, TOP_K_PER_LETTER_TRIGRAM>>}

BuilderInit ==
    /\ bpc = "bigram"
    /\ \E config \in TopKConfigs :
           top_k = config[1] /\ top_k_trigram = config[2]
    /\ file_tokens = <<>>
    /\ word_counts = <<>>
    /\ raw_bigrams = EmptyMap
    /\ prev_token = None
    /\ sorted_vocab = <<>>
    /\ build_word_to_id = EmptyMap
    /\ build_id_to_word = EmptyMap
    /\ final_transitions = EmptyMap
    /\ tpos = 0
    /\ raw_trigrams = EmptyMap
    /\ tprev_prev_token = None
    /\ tprev_token = None
    /\ final_trigram_transitions = EmptyMap

\* one iteration of the loop of build_model_incremental
BigramChunk(chunk) ==
    LET valid_chunk == ValidChunk(chunk, english_words)
    IN  /\ file_tokens' = file_tokens \o chunk
        /\ word_counts' = UpdateCounter(word_counts, valid_chunk)
        /\ raw_bigrams' = AggregateBigrams(raw_bigrams, prev_token, valid_chunk)
        /\ prev_token' = LastToken(prev_token, valid_chunk)
        /\ UNCHANGED <<bpc, sorted_vocab, build_word_to_id, build_id_to_word,
                       final_transitions, tpos, raw_trigrams,
                       tprev_prev_token, tprev_token,
                       final_trigram_transitions, top_k, top_k_trigram>>

BigramLoop ==
    /\ bpc = "bigram"
    /\ \E n \in 1..(MaxFileTokens - Len(file_tokens)) :
           \E chunk \in [1..n -> Tokens] : BigramChunk(chunk)

\* the end of the file: build_model_incremental after its loop
BigramFinish ==
    /\ bpc = "bigram"
    /\ LET vocabulary == SortedVocab(word_counts)
           w2i == [w \in Range(vocabulary) |->
                      (CHOOSE i \in 1..Len(vocabulary) : vocabulary[i] = w) - 1]
           i2w == [i \in 0..(Len(vocabulary) - 1) |-> vocabulary[i + 1]]
       IN  /\ sorted_vocab' = vocabulary
           /\ build_word_to_id' = w2i
           /\ build_id_to_word' = i2w
           /\ final_transitions' =
                  FinalTransitions(IdBigrams(raw_bigrams, w2i), i2w,
                                   MIN_BIGRAM_FREQ, top_k)
    /\ raw_bigrams' = EmptyMap
    /\ bpc' = "trigram"
    /\ UNCHANGED <<file_tokens, word_counts, prev_token, tpos, raw_trigrams,
                   tprev_prev_token, tprev_token, final_trigram_transitions,
                   top_k, top_k_trigram>>

\* one iteration of the loop of build_trigram_model_incremental, which
\* reads the file again; its chunks need not be those of the bigram pass,
\* which includes the equal chunks that the source's equal chunk_size gives
TrigramChunk(n) ==
    LET chunk == SubSeq(file_tokens, tpos + 1, tpos + n)
        valid_chunk == ValidChunk(chunk, english_words)
        last == LastTwoTokens(tprev_prev_token, tprev_token, valid_chunk)
    IN  /\ tpos' = tpos + n
        /\ raw_trigrams' = AggregateTrigrams(raw_trigrams, tprev_prev_token,
                                             tprev_token, valid_chunk)
        /\ tprev_prev_token' = last[1]
        /\ tprev_token' = last[2]
        /\ UNCHANGED <<bpc, file_tokens, word_counts, raw_bigrams, prev_token,
                       sorted_vocab, build_word_to_id, build_id_to_word,
                       final_transitions, final_trigram_transitions,
                       top_k, top_k_trigram>>

TrigramLoop ==
    /\ bpc = "trigram"
    /\ \E n \in 1..(Len(file_tokens) - tpos) : TrigramChunk(n)

\* the end of the file: build_trigram_model_incremental after its loop
TrigramFinish ==
    /\ bpc = "trigram"
    /\ tpos = Len(file_tokens)
    /\ final_trigram_transitions' =
           FinalTrigramTransitions(IdTrigrams(raw_trigrams, build_word_to_id),
                                   build_id_to_word, MIN_TRIGRAM_FREQ,
                                   top_k_trigram)
    /\ raw_trigrams' = EmptyMap
    /\ bpc' = "done"
    /\ UNCHANGED <<file_tokens, word_counts, raw_bigrams, prev_token,
                   sorted_vocab, build_word_to_id, build_id_to_word,
                   final_transitions, tpos, tprev_prev_token, tprev_token,
                   top_k, top_k_trigram>>

InitBuild == StegoInit /\ BuilderInit /\ TokenizerIdle

NextBuild ==
    \/ BigramLoop /\ UNCHANGED <<stegoVars, tokenVars>>
    \/ BigramFinish /\ UNCHANGED <<stegoVars, tokenVars>>
    \/ TrigramLoop /\ UNCHANGED <<stegoVars, tokenVars>>
    \/ TrigramFinish /\ UNCHANGED <<stegoVars, tokenVars>>

SpecBuild == InitBuild /\ [][NextBuild]_vars

-----------------------------------------------------------------------------
(* Claims about data_builder.py *)

\* the filtered token sequence of the file read so far
ValidTokens == SelectSeq(file_tokens, LAMBDA t : t \in english_words)

\* the number of positions of the filtered token sequence, the last `skip`
\* ones left out, at which the words of `ws` stand one after the other
Occurrences(ws, skip) ==
    Cardinality({i \in 1..(Len(ValidTokens) - Len(ws) + 1 - skip) :
                    \A k \in 1..Len(ws) : ValidTokens[i + k - 1] = ws[k]})

\* sum(raw[w].values()), 0 where raw has no entry for w
RecordedBigrams(w) ==
    IF w \in DOMAIN raw_bigrams THEN SumCounts(raw_bigrams[w]) ELSE 0

RecordedTrigrams(w1, w2) ==
    IF w1 \in DOMAIN raw_trigrams /\ w2 \in DOMAIN raw_trigrams[w1]
    THEN SumCounts(raw_trigrams[w1][w2]) ELSE 0

\* the loop of build_model_incremental has consumed the whole file
BigramsAggregated == bpc = "bigram"

\* the loop of build_trigram_model_incremental has consumed the whole file
TrigramsAggregated == bpc = "trigram" /\ tpos = Len(file_tokens)

\* C8: when the aggregator has consumed the whole corpus, for every bigram
\* context word w the recorded counts of its next words sum to the number
\* of occurrences of w in the filtered token sequence, and for every
\* trigram context (w1, w2) the recorded counts of the third words sum to
\* the number of occurrences of the adjacent pair w1 w2.
C8_CountContract ==
    /\ BigramsAggregated =>
           \A w \in DOMAIN raw_bigrams :
               RecordedBigrams(w) = Occurrences(<<w>>, 0)
    /\ TrigramsAggregated =>
           \A w1 \in DOMAIN raw_trigrams :
               \A w2 \in DOMAIN raw_trigrams[w1] :
                   RecordedTrigrams(w1, w2) = Occurrences(<<w1, w2>>, 0)

\* C8 as the code has it: the recorded counts of a word sum to its
\* occurrences that have a next word, so the occurrence as the last token of
\* the sequence is not counted, and those of a pair to its occurrences that
\* have a third word; a word or pair without entry has no such occurrence.
C8_CountContractFollowed ==
    /\ BigramsAggregated =>
           \A w \in english_words :
               RecordedBigrams(w) = Occurrences(<<w>>, 1)
    /\ TrigramsAggregated =>
           \A w1 \in english_words :
               \A w2 \in english_words :
                   RecordedTrigrams(w1, w2) = Occurrences(<<w1, w2>>, 1)

\* the file, which has tokens that english_words rejects, was read in more
\* than one chunk: a bigram across a chunk boundary was recorded after one
\* that stands later in the file, and the last token is a word that is also
\* a context
C8_Witness ==
    /\ BigramsAggregated
    /\ Len(ValidTokens) < Len(file_tokens)
    /\ raw_bigrams # ChunkBigrams(EmptyMap, ValidTokens, 1)
    /\ \E w \in DOMAIN raw_bigrams :
           /\ RecordedBigrams(w) >= 2
           /\ RecordedBigrams(w) < Occurrences(<<w>>, 0)

\* build_model_incremental has returned
BigramsBuilt == bpc \in {"trigram", "done"}

\* build_trigram_model_incremental has returned
TrigramsBuilt == bpc = "done"

\* final_transitions of build_model_incremental when the whole filtered
\* sequence is one chunk
SingleChunkBigrams ==
    FinalTransitions(
        IdBigrams(AggregateBigrams(EmptyMap, None, ValidTokens),
                  build_word_to_id),
        build_id_to_word, MIN_BIGRAM_FREQ, top_k)

\* final_trigram_transitions of build_trigram_model_incremental when the
\* whole filtered sequence is one chunk
SingleChunkTrigrams ==
    FinalTrigramTransitions(
        IdTrigrams(AggregateTrigrams(EmptyMap, None, None, ValidTokens),
                   build_word_to_id),
        build_id_to_word, MIN_TRIGRAM_FREQ, top_k_trigram)

\* C5: however the token sequence is split into chunks, the final pruned
\* tables of build_model_incremental and build_trigram_model_incremental are
\* those of the whole sequence as a single chunk: the same contexts, the
\* same letter buckets, the same candidate ids in the same order.
C5_CrossChunk ==
    /\ BigramsBuilt => final_transitions = SingleChunkBigrams
    /\ TrigramsBuilt => final_trigram_transitions = SingleChunkTrigrams

\* the words that follow the words of `ws` in the filtered token sequence
\* at least min_freq times and begin with c
Frequent(ws, c, min_freq) ==
    {w \in english_words :
        w[1] = c /\ Occurrences(Append(ws, w), 0) >= min_freq}

\* the invariants of one bucket: the candidates of the context `ws` for the
\* letter c, of which at most k are kept
BucketInvariant(bucket, ws, c, min_freq, k) ==
    /\ Len(bucket) >= 1
    /\ Len(bucket) <= k
    /\ \A j \in 1..Len(bucket) :
           /\ bucket[j] \in DOMAIN build_id_to_word
           /\ build_id_to_word[bucket[j]] \in Frequent(ws, c, min_freq)

\* C6: in the compiled bigram and trigram tables every id of the bucket of
\* a letter c names a word that begins with c and followed the context at
\* least minFreq (2) times, a bucket has at least one entry and at most K
\* (at most 30 in the bigram table, 20 in the trigram table), and every
\* context that is present has a bucket.
C6_BucketInvariants ==
    /\ top_k <= TOP_K_PER_LETTER
    /\ top_k_trigram <= TOP_K_PER_LETTER_TRIGRAM
    /\ \A curr_id \in DOMAIN final_transitions :
           /\ curr_id \in DOMAIN build_id_to_word
           /\ DOMAIN final_transitions[curr_id] # {}
           /\ \A c \in DOMAIN final_transitions[curr_id] :
                  BucketInvariant(final_transitions[curr_id][c],
                                  <<build_id_to_word[curr_id]>>, c,
                                  MIN_BIGRAM_FREQ, top_k)
    /\ \A word1_id \in DOMAIN final_trigram_transitions :
           /\ word1_id \in DOMAIN build_id_to_word
           /\ DOMAIN final_trigram_transitions[word1_id] # {}
           /\ \A word2_id \in DOMAIN final_trigram_transitions[word1_id] :
                  LET groups == final_trigram_transitions[word1_id][word2_id]
                  IN  /\ word2_id \in DOMAIN build_id_to_word
                      /\ DOMAIN groups # {}
                      /\ \A c \in DOMAIN groups :
                             BucketInvariant(groups[c],
                                             <<build_id_to_word[word1_id],
                                               build_id_to_word[word2_id]>>,
                                             c, MIN_TRIGRAM_FREQ,
                                             top_k_trigram)

\* both tables are compiled; the bigram table has a bucket of K ids cut out
\* of more frequent candidates than K, the file has a bigram that was seen
\* once only, and the trigram table has a bucket
C6_Witness ==
    /\ TrigramsBuilt
    /\ \E curr_id \in DOMAIN final_transitions :
           \E c \in DOMAIN final_transitions[curr_id] :
               /\ Len(final_transitions[curr_id][c]) = top_k
               /\ Cardinality(Frequent(<<build_id_to_word[curr_id]>>, c,
                                       MIN_BIGRAM_FREQ)) > top_k
    /\ \E w1 \in english_words : \E w2 \in english_words :
           Occurrences(<<w1, w2>>, 0) = 1
    /\ final_trigram_transitions # EmptyMap

RankedBefore(x, y, ws) ==
    LET count_x == Occurrences(Append(ws, build_id_to_word[x]), 0)
        count_y == Occurrences(Append(ws, build_id_to_word[y]), 0)
    IN  count_x > count_y \/ (count_x = count_y /\ x < y)

\* the bucket is the first k, in that order, of the frequent candidates of
\* the context `ws` for the letter c
BucketOrdered(bucket, ws, c, min_freq, k) ==
    LET frequent == {build_word_to_id[w] : w \in Frequent(ws, c, min_freq)}
    IN  /\ Range(bucket) \subseteq frequent
        /\ Len(bucket) = IF Cardinality(frequent) < k
                         THEN Cardinality(frequent) ELSE k
        /\ \A i \in 1..Len(bucket) : \A j \in 1..Len(bucket) :
               i < j => RankedBefore(bucket[i], bucket[j], ws)
        /\ \A x \in frequent \ Range(bucket) : \A j \in 1..Len(bucket) :
               RankedBefore(bucket[j], x, ws)

\* C13: in every bucket of a compiled table the candidate ids are in
\* non-increasing order of raw count, candidates of equal count in
\* increasing order of id, and the bucket is the first K of that order.
C13_CompactionOrder ==
    /\ \A curr_id \in DOMAIN final_transitions :
           \A c \in DOMAIN final_transitions[curr_id] :
               BucketOrdered(final_transitions[curr_id][c],
                             <<build_id_to_word[curr_id]>>, c,
                             MIN_BIGRAM_FREQ, top_k)
    /\ \A word1_id \in DOMAIN final_trigram_transitions :
           \A word2_id \in DOMAIN final_trigram_transitions[word1_id] :
               \A c \in DOMAIN final_trigram_transitions[word1_id][word2_id] :
                   BucketOrdered(
                       final_trigram_transitions[word1_id][word2_id][c],
                       <<build_id_to_word[word1_id],
                         build_id_to_word[word2_id]>>,
                       c, MIN_TRIGRAM_FREQ, top_k_trigram)

-----------------------------------------------------------------------------
(* The tokenizers *)

\* re.sub(r'\s+', ' ', text)
RECURSIVE CollapseWhitespace(_)
CollapseWhitespace(s) ==
    IF s = <<>> THEN <<>>
    ELSE IF s[1] \notin Whitespace
         THEN <<s[1]>> \o CollapseWhitespace(Tail(s))
         ELSE IF Len(s) >= 2 /\ s[2] \in Whitespace
              THEN CollapseWhitespace(Tail(s))
              ELSE <<" ">> \o CollapseWhitespace(Tail(s))

\* str.strip()
StripWhitespace(s) ==
    LET kept == {i \in 1..Len(s) : s[i] \notin Whitespace}
    IN  IF kept = {} THEN <<>>
        ELSE SubSeq(s, CHOOSE i \in kept : \A j \in kept : i <= j,
                       CHOOSE i \in kept : \A j \in kept : j <= i)

\* preprocess of the backup data_builder.py
data_builder_preprocess(text) ==
    Split(StripWhitespace(CollapseWhitespace(StripNonLowerAlpha(
        LowerStr(text)))))

\* for line in f: the lines of the file, each with its newline
RECURSIVE Lines(_)
Lines(text) ==
    IF text = <<>> THEN <<>>
    ELSE IF \E i \in 1..Len(text) : text[i] = "\n"
         THEN LET first == CHOOSE i \in 1..Len(text) :
                               /\ text[i] = "\n"
                               /\ \A j \in 1..(i - 1) : text[j] # "\n"
              IN  <<SubSeq(text, 1, first)>>
                      \o Lines(SubSeq(text, first + 1, Len(text)))
         ELSE <<text>>

CHUNK_SIZE == 50000

\* the loop of preprocess_streamed over the lines: the chunks it yields
RECURSIVE StreamedChunks(_, _, _)
StreamedChunks(lines, buffer, chunk_size) ==
    IF lines = <<>>
    THEN IF buffer # <<>> THEN <<buffer>> ELSE <<>>
    ELSE LET extended == buffer \o data_builder_preprocess(lines[1])
         IN  IF Len(extended) >= chunk_size
             THEN <<extended>> \o StreamedChunks(Tail(lines), <<>>, chunk_size)
             ELSE StreamedChunks(Tail(lines), extended, chunk_size)

preprocess_streamed(text, chunk_size) ==
    StreamedChunks(Lines(text), <<>>, chunk_size)

\* the tokens of the chunks, one chunk after the other
RECURSIVE Flatten(_)
Flatten(chunks) ==
    IF chunks = <<>> THEN <<>> ELSE chunks[1] \o Flatten(Tail(chunks))

\* Bounds of the enumerated texts
MaxTextLen == 4
MaxChunkSize == 2

\* a lower-case and an upper-case letter, a punctuation mark, a digit, a
\* blank and the end of a line
TextChars == {"a", "B", ".", "1", " ", "\n"}
Texts == SeqsUpTo(TextChars, MaxTextLen)
ChunkSizes == (1..MaxChunkSize) \cup {CHUNK_SIZE}

TokenizerInit ==
    /\ raw_text \in Texts
    /\ tokenizer = "none"
    /\ clean_tokens = <<>>

\* SteganographyLLM.preprocess(raw_text)
Preprocess ==
    /\ tokenizer = "none"
    /\ clean_tokens' = preprocess(raw_text)
    /\ tokenizer' = "SteganographyLLM.preprocess"
    /\ UNCHANGED raw_text

\* preprocess(raw_text) of the backup data_builder.py
PreprocessBackup ==
    /\ tokenizer = "none"
    /\ clean_tokens' = data_builder_preprocess(raw_text)
    /\ tokenizer' = "preprocess"
    /\ UNCHANGED raw_text

\* the chunks of preprocess_streamed on a file of content raw_text, one
\* after the other
PreprocessStreamed ==
    /\ tokenizer = "none"
    /\ \E chunk_size \in ChunkSizes :
           clean_tokens' = Flatten(preprocess_streamed(raw_text, chunk_size))
    /\ tokenizer' = "preprocess_streamed"
    /\ UNCHANGED raw_text

InitTokens == StegoInit /\ BuilderIdle /\ TokenizerInit

NextTokens ==
    \/ Preprocess /\ UNCHANGED <<stegoVars, builderVars>>
    \/ PreprocessBackup /\ UNCHANGED <<stegoVars, builderVars>>
    \/ PreprocessStreamed /\ UNCHANGED <<stegoVars, builderVars>>

SpecTokens == InitTokens /\ [][NextTokens]_vars

-----------------------------------------------------------------------------
(* Claims about the tokenizers *)

\* the maximal runs <<i, j>> of the positions of the text that are not in
\* `separators`, those without a letter left out
Runs(text, separators) ==
    {r \in (1..Len(text)) \X (1..Len(text)) :
        /\ r[1] <= r[2]
        /\ \A m \in r[1]..r[2] : m \notin separators
        /\ (r[1] = 1 \/ (r[1] - 1) \in separators)
        /\ (r[2] = Len(text) \/ (r[2] + 1) \in separators)
        /\ \E m \in r[1]..r[2] : IsAlpha(text[m])}

\* the letters, lowercased, of each of these runs, in the order of the text
RunWords(text, separators) ==
    LET runs == Runs(text, separators)
        run(k) == CHOOSE r \in runs :
                      Cardinality({q \in runs : q[1] < r[1]}) = k - 1
    IN  [k \in 1..Cardinality(runs) |->
            LettersLowercased(SubSeq(text, run(k)[1], run(k)[2]))]

NonLetters(text) == {m \in 1..Len(text) : ~IsAlpha(text[m])}

Blanks(text) == {m \in 1..Len(text) : text[m] \in Whitespace}

\* C16: the tokens of a text are its maximal runs of letters, lowercased
\* and in order, every character that is not a letter (punctuation, digit,
\* whitespace) separating two tokens, and no token is empty.
C16_Tokenization ==
    tokenizer # "none" =>
        /\ clean_tokens = RunWords(raw_text, NonLetters(raw_text))
        /\ \A k \in 1..Len(clean_tokens) : clean_tokens[k] # <<>>

\* C16 as the three tokenizers have it: only whitespace separates tokens;
\* a token is the letters, lowercased, of a maximal run of characters
\* other than whitespace, the other characters of the run deleted, and a
\* run without a letter gives no token.
C16_TokenizationWords ==
    tokenizer # "none" =>
        /\ clean_tokens = RunWords(raw_text, Blanks(raw_text))
        /\ \A k \in 1..Len(clean_tokens) : clean_tokens[k] # <<>>

\* the file was read line by line: a token of two letters, one of them
\* upper-case in the text, that a punctuation mark or digit stood between,
\* and a second line
C16_Witness ==
    /\ tokenizer = "preprocess_streamed"
    /\ clean_tokens # RunWords(raw_text, NonLetters(raw_text))
    /\ \E k \in 1..Len(clean_tokens) : clean_tokens[k] = <<"a", "b">>
    /\ \E m \in 1..(Len(raw_text) - 1) : raw_text[m] = "\n"

=============================================================================
